---- MODULE Spec2Model ----
(***************************************************************************)
(* The navigation/event core of jellyfin-tui (cmd/jellyfin-tui/main.go):   *)
(* the Model value, Model.Update as one action per message it handles,     *)
(* and the commands (fetch*, searchMedia, playMedia) it hands to the       *)
(* runtime, each of which runs once and feeds its result message back to   *)
(* Update.                                                                 *)
(*                                                                         *)
(* The list widget's cursor is not part of the state: the row that is      *)
(* highlighted when enter arrives is an input of the enter actions.  A     *)
(* quit key ends the program without touching the Model: a run that quits  *)
(* is a run that takes no further step.                                    *)
(***************************************************************************)
EXTENDS Bags, FiniteSets, Integers, Sequences, TLC

VARIABLES
    config,        \* Model.config
    currentView,   \* Model.currentView
    moviesList,    \* items of Model.moviesList
    tvShowsList,   \* items of Model.tvShowsList
    seasonsList,   \* items of Model.seasonsList
    episodesList,  \* items of Model.episodesList
    searchList,    \* items of Model.searchList
    searchInput,   \* value of Model.searchInput
    configInputs,  \* Model.configInputs: value and focus of the two fields
    currentItem,   \* Model.currentItem
    err,           \* Model.err
    configFile,    \* contents of ~/.config/jellyfin-tui/config
    inflight,      \* commands returned by Update that have not yet completed
    inputs         \* fetches issued and editing keys processed so far

vars == <<config, currentView, moviesList, tvShowsList, seasonsList,
          episodesList, searchList, searchInput, configInputs, currentItem,
          err, configFile, inflight, inputs>>

-----------------------------------------------------------------------------
(* Bounds of the model *)

MaxItems == 2
MaxIndex == 1
MaxInputs == 3
MaxInflight == 2
\* the longest answer of the server in the runs with fair completion
MaxFairItems == 1

-----------------------------------------------------------------------------
(* Values *)

None == "none"
\* an optional JSON number is <<>> when missing and <<n>> when present
Absent == <<>>
Present(n) == <<n>>

Config(url, key) == [ServerURL |-> url, APIKey |-> key]

\* initialModel's fallback configuration
DefaultConfig == Config("https://jellyfin.example.com", "your_api_key_here")

\* The configuration file: missing, bytes that do not parse, or the JSON
\* object json.MarshalIndent writes for a Config
JsonFile(url, key) == [state |-> "json", server_url |-> url, api_key |-> key]
NoFile == [state |-> "missing", server_url |-> "", api_key |-> ""]
Garbage == [state |-> "garbage", server_url |-> "", api_key |-> ""]

\* json.MarshalIndent(config) and json.Unmarshal(data, &config)
MarshalConfig(cfg) == JsonFile(cfg.ServerURL, cfg.APIKey)
UnmarshalConfig(file) == Config(file.server_url, file.api_key)

\* What the configuration file may hold at start-up.  The stored values are
\* one character long, so that a few backspaces empty a field.
StoredFiles == {NoFile, Garbage, JsonFile("u", "k")}

\* MediaItem of main.go (ImageURL is never set and is left out)
MediaItem(id, title, type, stream, parent, index, display) ==
    [ID |-> id, ItemTitle |-> title, Type |-> type, StreamURL |-> stream,
     ParentID |-> parent, IndexNumber |-> index, DisplayTitle |-> display]

ZeroItem == MediaItem("", "", "", "", "", 0, "")

\* the main menu built by initialModel
mainItems ==
    << MediaItem("", "Movies", "category", "", "", 0, ""),
       MediaItem("", "TV Shows", "category", "", "", 0, ""),
       MediaItem("", "Search", "action", "", "", 0, ""),
       MediaItem("", "Configure", "action", "", "", 0, "") >>

-----------------------------------------------------------------------------
(* The server's answers *)

\* The ids the server may put in its answer to each kind of query.  An id may
\* be empty; ids of different kinds of item differ, as server-assigned ids do.
ItemIDs(kind) ==
    CASE kind = "fetchMovies" -> {"", "m1"}
      [] kind = "fetchTVShows" -> {"", "s1", "s2"}
      [] kind = "fetchSeasons" -> {"", "n1"}
      [] kind = "fetchEpisodes" -> {"", "e1"}
      [] kind = "searchMedia" -> {"", "m1"}
ItemNames == {"n"}
MediaTypes == {"Video"}
Runes == {"x"}
FetchErrors == {"API request failed"}
ExecError == "failed to start MPV"
SaveError == "failed to write config file"

SeqsUpTo(S, n) == UNION {[1..k -> S] : k \in 0..n}

\* An item of the decoded JSON answer, before json.Unmarshal fills the Go
\* struct: IndexNumber may be missing.
JsonItem(id, name, mtype, index) ==
    [Id |-> id, Name |-> name, MediaType |-> mtype, IndexNumber |-> index]

\* Only fetchEpisodes reads IndexNumber, so only its answers vary it.
JsonItems(kind) ==
    {JsonItem(id, n, t, ix) :
        id \in ItemIDs(kind), n \in ItemNames, t \in MediaTypes,
        ix \in IF kind = "fetchEpisodes"
                  THEN {Absent} \cup {Present(n) : n \in 0..MaxIndex}
                  ELSE {Absent}}

Responses(kind) == SeqsUpTo(JsonItems(kind), MaxItems)

\* json.Unmarshal into jellyfin.MediaItem: a missing IndexNumber is the int 0
DecodeIndex(ix) == IF ix = Absent THEN 0 ELSE ix[1]

\* Client.GetStreamURL
GetStreamURL(cfg, itemID) ==
    cfg.ServerURL \o "/Videos/" \o itemID \o "/stream?api_key=" \o cfg.APIKey

-----------------------------------------------------------------------------
(* The commands' conversions of the server's answer *)

\* fetchMovies and searchMedia build the same MediaItem
ConvertMovies(cfg, items) ==
    [i \in 1..Len(items) |->
        MediaItem(items[i].Id, items[i].Name, items[i].MediaType,
                  GetStreamURL(cfg, items[i].Id), "", 0, "")]

ConvertTVShows(cfg, items) ==
    [i \in 1..Len(items) |->
        MediaItem(items[i].Id, items[i].Name, "tvshow",
                  GetStreamURL(cfg, items[i].Id), "", 0, "")]

ConvertSeasons(seriesID, items) ==
    [i \in 1..Len(items) |->
        MediaItem(items[i].Id, items[i].Name, "season", "", seriesID, 0, "")]

\* fmt.Sprintf("%02d", n)
Pad2(n) == IF n < 10 THEN "0" \o ToString(n) ELSE ToString(n)

EpisodeDisplayTitle(name, index) ==
    IF index > 0 THEN "E" \o Pad2(index) \o ": " \o name ELSE name

ConvertEpisodes(cfg, seasonID, items) ==
    [i \in 1..Len(items) |->
        MediaItem(items[i].Id, items[i].Name, "episode",
                  GetStreamURL(cfg, items[i].Id), seasonID,
                  DecodeIndex(items[i].IndexNumber),
                  EpisodeDisplayTitle(items[i].Name,
                                      DecodeIndex(items[i].IndexNumber)))]

\* Mutation of EpisodeLess: the comparison is turned round
EpisodeLess_Descending(x, y) == x.IndexNumber > y.IndexNumber

\* the less function fetchEpisodes gives to sort.Slice
EpisodeLess(x, y) == x.IndexNumber < y.IndexNumber

\* sort.Slice is not stable: every arrangement of s in which no element is
\* less than one before it is a possible result.
SortSlice(s) ==
    {t \in {[i \in 1..Len(s) |-> s[p[i]]] : p \in Permutations(1..Len(s))} :
        \A i, j \in 1..Len(s) : i < j => ~EpisodeLess(t[j], t[i])}

-----------------------------------------------------------------------------
(* Commands (tea.Cmd values) and the messages they produce *)

fetchMovies(cfg) == [kind |-> "fetchMovies", config |-> cfg]
fetchTVShows(cfg) == [kind |-> "fetchTVShows", config |-> cfg]
fetchSeasons(cfg, seriesID) ==
    [kind |-> "fetchSeasons", config |-> cfg, seriesID |-> seriesID]
fetchEpisodes(cfg, seasonID) ==
    [kind |-> "fetchEpisodes", config |-> cfg, seasonID |-> seasonID]
searchMedia(cfg, query) ==
    [kind |-> "searchMedia", config |-> cfg, query |-> query]
playMedia(item) == [kind |-> "playMedia", item |-> item]

FetchKinds ==
    {"fetchMovies", "fetchTVShows", "fetchSeasons", "fetchEpisodes",
     "searchMedia"}

\* url.QueryEscape on the characters the model types: a space becomes "+",
\* letters are kept
RECURSIVE QueryEscape(_)
QueryEscape(q) ==
    IF q = "" THEN ""
    ELSE (IF SubSeq(q, 1, 1) = " " THEN "+" ELSE SubSeq(q, 1, 1))
             \o QueryEscape(SubSeq(q, 2, Len(q)))

\* the request each fetch sends
Endpoint(c) ==
    CASE c.kind = "fetchMovies" ->
           c.config.ServerURL \o "/Items?IncludeItemTypes=Movie&Recursive=true&api_key="
               \o c.config.APIKey
      [] c.kind = "fetchTVShows" ->
           c.config.ServerURL \o "/Items?IncludeItemTypes=Series&Recursive=true&api_key="
               \o c.config.APIKey
      [] c.kind = "fetchSeasons" ->
           c.config.ServerURL \o "/Shows/" \o c.seriesID \o "/Seasons?api_key="
               \o c.config.APIKey
      [] c.kind = "fetchEpisodes" ->
           c.config.ServerURL \o "/Items?ParentId=" \o c.seasonID \o "&api_key="
               \o c.config.APIKey \o "&SortBy=SortName"
      [] c.kind = "searchMedia" ->
           c.config.ServerURL \o "/Items?SearchTerm=" \o QueryEscape(c.query)
               \o "&Recursive=true&api_key=" \o c.config.APIKey

\* the arguments playMedia gives to exec.Command("mpv", ...)
PlayerArgs(c) == <<c.item.StreamURL>>

ItemsMsg(type, items) == [type |-> type, items |-> items]
errorMsg(e) == [type |-> "errorMsg", err |-> e]
NilMsg == [type |-> "nil"]

\* Mutation of FetchSuccess: the records are built from the configuration
\* that is in use when the command ends
FetchSuccess_LiveConfig(c, resp) ==
    CASE c.kind = "fetchMovies" ->
           {ItemsMsg("fetchMoviesMsg", ConvertMovies(config, resp))}
      [] c.kind = "fetchTVShows" ->
           {ItemsMsg("fetchTVShowsMsg", ConvertTVShows(config, resp))}
      [] c.kind = "fetchSeasons" ->
           {ItemsMsg("fetchSeasonsMsg", ConvertSeasons(c.seriesID, resp))}
      [] c.kind = "fetchEpisodes" ->
           {ItemsMsg("fetchEpisodesMsg", t) :
               t \in SortSlice(ConvertEpisodes(config, c.seasonID, resp))}
      [] c.kind = "searchMedia" ->
           {ItemsMsg("searchResultsMsg", ConvertMovies(config, resp))}

\* The messages a fetch command may return when the server answers resp
FetchSuccess(c, resp) ==
    CASE c.kind = "fetchMovies" ->
           {ItemsMsg("fetchMoviesMsg", ConvertMovies(c.config, resp))}
      [] c.kind = "fetchTVShows" ->
           {ItemsMsg("fetchTVShowsMsg", ConvertTVShows(c.config, resp))}
      [] c.kind = "fetchSeasons" ->
           {ItemsMsg("fetchSeasonsMsg", ConvertSeasons(c.seriesID, resp))}
      [] c.kind = "fetchEpisodes" ->
           {ItemsMsg("fetchEpisodesMsg", t) :
               t \in SortSlice(ConvertEpisodes(c.config, c.seasonID, resp))}
      [] c.kind = "searchMedia" ->
           {ItemsMsg("searchResultsMsg", ConvertMovies(c.config, resp))}

FetchFailure == {errorMsg(e) : e \in FetchErrors}

-----------------------------------------------------------------------------
(* Start-up: initialModel *)

\* loadConfig: an error unless the file exists and parses
LoadFails(file) == file.state # "json"

Input(value, focused) == [value |-> value, focused |-> focused]

\* saveConfig: the file after a call that returns nil (ok) or an error
SaveConfig(file, cfg, ok) == IF ok THEN MarshalConfig(cfg) ELSE file

\* Mutation of StartUp: the zero Config loadConfig returns with its error is
\* kept, and saved
StartUp_KeepsZeroConfig(file, ok) ==
    /\ IF LoadFails(file)
         THEN /\ config = Config("", "")
              /\ configFile = SaveConfig(file, Config("", ""), ok)
         ELSE /\ config = UnmarshalConfig(file)
              /\ configFile = file
    /\ currentView = "main"
    /\ moviesList = <<>>
    /\ tvShowsList = <<>>
    /\ seasonsList = <<>>
    /\ episodesList = <<>>
    /\ searchList = <<>>
    /\ searchInput = ""
    /\ configInputs = << Input(config.ServerURL, TRUE),
                         Input(config.APIKey, FALSE) >>
    /\ currentItem = ZeroItem
    /\ err = None
    /\ inflight = EmptyBag
    /\ inputs = 0

\* initialModel when the configuration file holds file; ok tells whether the
\* saveConfig call of the fallback succeeds (its error is dropped)
StartUp(file, ok) ==
    /\ IF LoadFails(file)
         THEN /\ config = DefaultConfig
              /\ configFile = SaveConfig(file, DefaultConfig, ok)
         ELSE /\ config = UnmarshalConfig(file)
              /\ configFile = file
    /\ currentView = "main"
    /\ moviesList = <<>>
    /\ tvShowsList = <<>>
    /\ seasonsList = <<>>
    /\ episodesList = <<>>
    /\ searchList = <<>>
    /\ searchInput = ""
    /\ configInputs = << Input(config.ServerURL, TRUE),
                         Input(config.APIKey, FALSE) >>
    /\ currentItem = ZeroItem
    /\ err = None
    /\ inflight = EmptyBag
    /\ inputs = 0

Init == \E file \in StoredFiles : \E ok \in BOOLEAN : StartUp(file, ok)

-----------------------------------------------------------------------------
(* Helpers of the Update actions *)

buffers == <<moviesList, tvShowsList, seasonsList, episodesList, searchList>>
fields == <<searchInput, configInputs>>

\* The rows list.SelectedItem() may return: none (0) for an empty list
Rows(list) == IF Len(list) = 0 THEN {0} ELSE 1..Len(list)

\* Update returns no command
NoCmd == UNCHANGED <<inflight, inputs>>

\* Update returns a fetch command, which the runtime starts
ReturnFetch(c) ==
    /\ inputs < MaxInputs
    /\ BagCardinality(inflight) < MaxInflight
    /\ inflight' = inflight (+) SetToBag({c})
    /\ inputs' = inputs + 1

\* Update returns playMedia(item)
ReturnPlay(item) ==
    /\ BagCardinality(inflight) < MaxInflight
    /\ inflight' = inflight (+) SetToBag({playMedia(item)})
    /\ UNCHANGED inputs

-----------------------------------------------------------------------------
(* Update on key messages *)

\* Mutation of BackTarget: every view below the menu leads back to it
BackTarget_AlwaysMain(view) ==
    IF view \in {"episodes", "seasons", "movies", "tvshows", "search"}
      THEN "main" ELSE view

\* where esc leads from each view; main and config are not in the switch
BackTarget(view) ==
    CASE view = "episodes" -> "seasons"
      [] view = "seasons" -> "tvshows"
      [] view \in {"movies", "tvshows", "search"} -> "main"
      [] OTHER -> view

\* Mutation of KeyEsc: going back to a library view fetches its list again
KeyEsc_Refetches ==
    /\ currentView' = BackTarget(currentView)
    /\ IF currentView = "seasons"
         THEN ReturnFetch(fetchTVShows(config))
         ELSE UNCHANGED <<inflight, inputs>>
    /\ UNCHANGED <<config, buffers, fields, currentItem, err, configFile>>

\* case "esc"
KeyEsc ==
    /\ currentView' = BackTarget(currentView)
    /\ UNCHANGED <<config, buffers, fields, currentItem, err, configFile,
                   inflight, inputs>>

\* Mutation of KeyEnterMain: entering a view from the menu clears the error
KeyEnterMain_ClearsError(row) ==
    /\ currentView = "main"
    /\ LET title == mainItems[row].ItemTitle IN
         \/ /\ title = "Movies"
            /\ currentView' = "movies"
            /\ ReturnFetch(fetchMovies(config))
            /\ UNCHANGED fields
         \/ /\ title = "TV Shows"
            /\ currentView' = "tvshows"
            /\ ReturnFetch(fetchTVShows(config))
            /\ UNCHANGED fields
         \/ /\ title = "Search"
            /\ currentView' = "search"
            /\ searchInput' = ""
            /\ NoCmd
            /\ UNCHANGED configInputs
         \/ /\ title = "Configure"
            /\ currentView' = "config"
            /\ configInputs' = << Input(config.ServerURL, TRUE),
                                  Input(config.APIKey, configInputs[2].focused) >>
            /\ NoCmd
            /\ UNCHANGED searchInput
    /\ err' = None
    /\ UNCHANGED <<config, buffers, currentItem, configFile>>

\* case "main", enter on the highlighted row of the menu
KeyEnterMain(row) ==
    /\ currentView = "main"
    /\ LET title == mainItems[row].ItemTitle IN
         \/ /\ title = "Movies"
            /\ currentView' = "movies"
            /\ ReturnFetch(fetchMovies(config))
            /\ UNCHANGED fields
         \/ /\ title = "TV Shows"
            /\ currentView' = "tvshows"
            /\ ReturnFetch(fetchTVShows(config))
            /\ UNCHANGED fields
         \/ /\ title = "Search"
            /\ currentView' = "search"
            /\ searchInput' = ""
            /\ NoCmd
            /\ UNCHANGED configInputs
         \/ /\ title = "Configure"
            /\ currentView' = "config"
            /\ configInputs' = << Input(config.ServerURL, TRUE),
                                  Input(config.APIKey, configInputs[2].focused) >>
            /\ NoCmd
            /\ UNCHANGED searchInput
    /\ UNCHANGED <<config, buffers, currentItem, err, configFile>>

\* Mutation of KeyEnterLibrary: the selected record is not kept as context
KeyEnterLibrary_KeepsContext(row) ==
    /\ currentView \in {"movies", "tvshows"}
    /\ LET list == IF currentView = "movies" THEN moviesList ELSE tvShowsList IN
         /\ row \in Rows(list)
         /\ IF row # 0 /\ list[row].ID # ""
              THEN /\ currentView' = "seasons"
                   /\ ReturnFetch(fetchSeasons(config, list[row].ID))
              ELSE /\ NoCmd
                   /\ UNCHANGED currentView
    /\ UNCHANGED <<config, buffers, fields, currentItem, err, configFile>>

\* the list the movies/tvshows case works on
LibraryList == IF currentView = "movies" THEN moviesList ELSE tvShowsList

\* case "movies", "tvshows": enter on row (0: the list is empty)
KeyEnterLibrary(row) ==
    /\ currentView \in {"movies", "tvshows"}
    /\ row \in Rows(LibraryList)
    /\ IF row # 0 /\ LibraryList[row].ID # ""
         THEN /\ currentItem' = LibraryList[row]
              /\ currentView' = "seasons"
              /\ ReturnFetch(fetchSeasons(config, LibraryList[row].ID))
         ELSE /\ NoCmd
              /\ UNCHANGED <<currentItem, currentView>>
    /\ UNCHANGED <<config, buffers, fields, err, configFile>>

\* Mutation of KeyEnterSeasons: the id of the selected record is not looked at
KeyEnterSeasons_NoIdCheck(row) ==
    /\ currentView = "seasons"
    /\ row \in Rows(seasonsList)
    /\ IF row # 0
         THEN /\ currentItem' = seasonsList[row]
              /\ currentView' = "episodes"
              /\ ReturnFetch(fetchEpisodes(config, seasonsList[row].ID))
         ELSE /\ NoCmd
              /\ UNCHANGED <<currentItem, currentView>>
    /\ UNCHANGED <<config, buffers, fields, err, configFile>>

\* Mutation of KeyEnterSeasons: the episodes fetched are those of the context
\* held before the selection
KeyEnterSeasons_ParentOfContext(row) ==
    /\ currentView = "seasons"
    /\ row \in Rows(seasonsList)
    /\ IF row # 0 /\ seasonsList[row].ID # ""
         THEN /\ currentItem' = seasonsList[row]
              /\ currentView' = "episodes"
              /\ ReturnFetch(fetchEpisodes(config, currentItem.ID))
         ELSE /\ NoCmd
              /\ UNCHANGED <<currentItem, currentView>>
    /\ UNCHANGED <<config, buffers, fields, err, configFile>>

\* case "seasons"
KeyEnterSeasons(row) ==
    /\ currentView = "seasons"
    /\ row \in Rows(seasonsList)
    /\ IF row # 0 /\ seasonsList[row].ID # ""
         THEN /\ currentItem' = seasonsList[row]
              /\ currentView' = "episodes"
              /\ ReturnFetch(fetchEpisodes(config, seasonsList[row].ID))
         ELSE /\ NoCmd
              /\ UNCHANGED <<currentItem, currentView>>
    /\ UNCHANGED <<config, buffers, fields, err, configFile>>

\* Mutation of KeyEnterEpisodes: the context is played, not the selected row
KeyEnterEpisodes_PlaysContext(row) ==
    /\ currentView = "episodes"
    /\ row \in Rows(episodesList)
    /\ IF row # 0 /\ episodesList[row].ID # ""
         THEN ReturnPlay(currentItem)
         ELSE NoCmd
    /\ UNCHANGED <<config, currentView, buffers, fields, currentItem, err,
                   configFile>>

\* case "episodes"
KeyEnterEpisodes(row) ==
    /\ currentView = "episodes"
    /\ row \in Rows(episodesList)
    /\ IF row # 0 /\ episodesList[row].ID # ""
         THEN ReturnPlay(episodesList[row])
         ELSE NoCmd
    /\ UNCHANGED <<config, currentView, buffers, fields, currentItem, err,
                   configFile>>

\* Mutation of KeyEnterSearch: an empty query is submitted too
KeyEnterSearch_SubmitsEmpty(row) ==
    /\ currentView = "search"
    /\ row \in Rows(searchList)
    /\ ReturnFetch(searchMedia(config, searchInput))
    /\ UNCHANGED <<config, currentView, buffers, fields, currentItem, err,
                   configFile>>

\* case "search", enter: a non-empty query is submitted before the result
\* list is looked at
KeyEnterSearch(row) ==
    /\ currentView = "search"
    /\ row \in Rows(searchList)
    /\ IF searchInput # ""
         THEN ReturnFetch(searchMedia(config, searchInput))
         ELSE IF Len(searchList) > 0 /\ searchList[row].ID # ""
                THEN ReturnPlay(searchList[row])
                ELSE NoCmd
    /\ UNCHANGED <<config, currentView, buffers, fields, currentItem, err,
                   configFile>>

\* Mutation of KeyEnterConfig: the new configuration is saved but the one in
\* use is not replaced
KeyEnterConfig_KeepsLiveConfig(ok) ==
    /\ currentView = "config"
    /\ LET newConfig == Config(configInputs[1].value, configInputs[2].value) IN
         /\ configFile' = SaveConfig(configFile, newConfig, ok)
         /\ IF ok
              THEN /\ currentView' = "main"
                   /\ UNCHANGED <<config, err>>
              ELSE /\ err' = SaveError
                   /\ UNCHANGED <<config, currentView>>
    /\ NoCmd
    /\ UNCHANGED <<buffers, fields, currentItem>>

\* Mutation of KeyEnterConfig: the error saveConfig returns is not looked at
KeyEnterConfig_IgnoresSaveError(ok) ==
    /\ currentView = "config"
    /\ LET newConfig == Config(configInputs[1].value, configInputs[2].value) IN
         /\ configFile' = SaveConfig(configFile, newConfig, ok)
         /\ config' = newConfig
         /\ currentView' = "main"
         /\ UNCHANGED err
    /\ NoCmd
    /\ UNCHANGED <<buffers, fields, currentItem>>

\* case "config", enter; ok tells whether saveConfig returns nil.  When it
\* fails only err changes.
KeyEnterConfig(ok) ==
    /\ currentView = "config"
    /\ LET newConfig == Config(configInputs[1].value, configInputs[2].value) IN
         /\ configFile' = SaveConfig(configFile, newConfig, ok)
         /\ IF ok
              THEN /\ config' = newConfig
                   /\ currentView' = "main"
                   /\ UNCHANGED err
              ELSE /\ err' = SaveError
                   /\ UNCHANGED <<config, currentView>>
    /\ NoCmd
    /\ UNCHANGED <<buffers, fields, currentItem>>

FocusKeys == {"tab", "down", "shift+tab", "up"}

\* case "config", "tab"/"down" and "shift+tab"/"up": both branches move the
\* focus the same way.  In the list views these keys only reach the widget.
KeyFocus(key) ==
    /\ key \in FocusKeys
    /\ IF currentView = "config"
         THEN IF configInputs[1].focused
                THEN configInputs' = << Input(configInputs[1].value, FALSE),
                                        Input(configInputs[2].value, TRUE) >>
                ELSE configInputs' = << Input(configInputs[1].value, TRUE),
                                        Input(configInputs[2].value, FALSE) >>
         ELSE UNCHANGED configInputs
    /\ UNCHANGED <<config, currentView, buffers, searchInput, currentItem, err,
                   configFile, inflight, inputs>>

\* textinput.Update on an editing key: a rune is appended, backspace removes
\* the last character
Edit(value, key) ==
    IF key = "backspace"
      THEN (IF value = "" THEN "" ELSE SubSeq(value, 1, Len(value) - 1))
      ELSE value \o key

EditKeys == Runes \cup {"backspace"}

\* A rune or backspace: in search it edits the query, in config the first
\* focused field; the list views ignore it.
KeyEdit(key) ==
    /\ key \in EditKeys
    /\ CASE currentView = "search" ->
              /\ inputs < MaxInputs
              /\ searchInput' = Edit(searchInput, key)
              /\ inputs' = inputs + 1
              /\ UNCHANGED configInputs
         [] currentView = "config" ->
              /\ inputs < MaxInputs
              /\ inputs' = inputs + 1
              /\ UNCHANGED searchInput
              /\ IF configInputs[1].focused
                   THEN configInputs' =
                          [configInputs EXCEPT ![1].value = Edit(@, key)]
                   ELSE IF configInputs[2].focused
                          THEN configInputs' =
                                 [configInputs EXCEPT ![2].value = Edit(@, key)]
                          ELSE UNCHANGED configInputs
         [] OTHER -> UNCHANGED <<searchInput, configInputs, inputs>>
    /\ UNCHANGED <<config, currentView, buffers, currentItem, err, configFile,
                   inflight>>

-----------------------------------------------------------------------------
(* Update on the messages the commands return *)

\* the view whose list a result message is stored in
ViewOfMsg(type) ==
    CASE type = "fetchMoviesMsg" -> "movies"
      [] type = "fetchTVShowsMsg" -> "tvshows"
      [] type = "fetchSeasonsMsg" -> "seasons"
      [] type = "fetchEpisodesMsg" -> "episodes"
      [] type = "searchResultsMsg" -> "search"
      [] OTHER -> "none"

\* Mutation of UpdateMsg: a result for a view that is not the active one is
\* dropped
UpdateMsg_DropsInactive(msg) ==
    LET keep(type) == msg.type = type /\ ViewOfMsg(type) = currentView IN
    /\ moviesList' = IF keep("fetchMoviesMsg") THEN msg.items ELSE moviesList
    /\ tvShowsList' = IF keep("fetchTVShowsMsg") THEN msg.items ELSE tvShowsList
    /\ seasonsList' = IF keep("fetchSeasonsMsg") THEN msg.items ELSE seasonsList
    /\ episodesList' = IF keep("fetchEpisodesMsg") THEN msg.items ELSE episodesList
    /\ searchList' = IF keep("searchResultsMsg") THEN msg.items ELSE searchList
    /\ err' = IF msg.type = "errorMsg" THEN msg.err ELSE err
    /\ UNCHANGED <<config, currentView, fields, currentItem, configFile,
                   inputs>>

\* Mutation of UpdateMsg: an error empties the list of the active view
UpdateMsg_ErrorClears(msg) ==
    LET new(type, list) ==
            IF msg.type = type THEN msg.items
            ELSE IF msg.type = "errorMsg" /\ ViewOfMsg(type) = currentView
                   THEN <<>> ELSE list IN
    /\ moviesList' = new("fetchMoviesMsg", moviesList)
    /\ tvShowsList' = new("fetchTVShowsMsg", tvShowsList)
    /\ seasonsList' = new("fetchSeasonsMsg", seasonsList)
    /\ episodesList' = new("fetchEpisodesMsg", episodesList)
    /\ searchList' = new("searchResultsMsg", searchList)
    /\ err' = IF msg.type = "errorMsg" THEN msg.err ELSE err
    /\ UNCHANGED <<config, currentView, fields, currentItem, configFile,
                   inputs>>

\* Mutation of UpdateMsg: a result that is not an error clears the error
UpdateMsg_SuccessClearsError(msg) ==
    /\ moviesList' = IF msg.type = "fetchMoviesMsg" THEN msg.items ELSE moviesList
    /\ tvShowsList' = IF msg.type = "fetchTVShowsMsg" THEN msg.items ELSE tvShowsList
    /\ seasonsList' = IF msg.type = "fetchSeasonsMsg" THEN msg.items ELSE seasonsList
    /\ episodesList' = IF msg.type = "fetchEpisodesMsg" THEN msg.items ELSE episodesList
    /\ searchList' = IF msg.type = "searchResultsMsg" THEN msg.items ELSE searchList
    /\ err' = IF msg.type = "errorMsg" THEN msg.err
              ELSE IF msg.type = "nil" THEN err ELSE None
    /\ UNCHANGED <<config, currentView, fields, currentItem, configFile,
                   inputs>>

\* case fetchMoviesMsg ... case errorMsg; a nil message changes nothing
UpdateMsg(msg) ==
    /\ moviesList' = IF msg.type = "fetchMoviesMsg" THEN msg.items ELSE moviesList
    /\ tvShowsList' = IF msg.type = "fetchTVShowsMsg" THEN msg.items ELSE tvShowsList
    /\ seasonsList' = IF msg.type = "fetchSeasonsMsg" THEN msg.items ELSE seasonsList
    /\ episodesList' = IF msg.type = "fetchEpisodesMsg" THEN msg.items ELSE episodesList
    /\ searchList' = IF msg.type = "searchResultsMsg" THEN msg.items ELSE searchList
    /\ err' = IF msg.type = "errorMsg" THEN msg.err ELSE err
    /\ UNCHANGED <<config, currentView, fields, currentItem, configFile,
                   inputs>>

\* Mutation of Deliver: the command stays with the runtime after its message
\* was handled, and so ends again
Deliver_KeepsCommand(c, msg) ==
    /\ BagIn(c, inflight)
    /\ inflight' = inflight
    /\ UpdateMsg(msg)

\* A command ends: it leaves the runtime and Update handles its message.
Deliver(c, msg) ==
    /\ BagIn(c, inflight)
    /\ inflight' = inflight (-) SetToBag({c})
    /\ UpdateMsg(msg)

\* every message a fetch command can end with
FetchResults(c) ==
    FetchFailure \cup UNION {FetchSuccess(c, resp) : resp \in Responses(c.kind)}

RunFetch(kind) ==
    \E c \in BagToSet(inflight) :
        /\ c.kind = kind
        /\ \E msg \in FetchResults(c) : Deliver(c, msg)

RunFetchMovies == RunFetch("fetchMovies")
RunFetchTVShows == RunFetch("fetchTVShows")
RunFetchSeasons == RunFetch("fetchSeasons")
RunFetchEpisodes == RunFetch("fetchEpisodes")
RunSearchMedia == RunFetch("searchMedia")

\* playMedia: cmd.Start() succeeds (nil message) or fails
PlayResults == {NilMsg, errorMsg(ExecError)}

RunPlayMedia ==
    \E c \in BagToSet(inflight) :
        /\ c.kind = "playMedia"
        /\ \E msg \in PlayResults : Deliver(c, msg)

-----------------------------------------------------------------------------
(* Model.View *)

Screen(kind, text, items) == [screen |-> kind, text |-> text, items |-> items]

\* what is rendered: the error text whenever err is set, else the list or
\* the form of the active view (the widgets' own rendering is left as the
\* data they show)
View ==
    IF err # None
      THEN Screen("error", "Error: " \o err \o "\n\nPress any key to exit.", <<>>)
      ELSE CASE currentView = "main" -> Screen("list", "", mainItems)
             [] currentView = "movies" -> Screen("list", "", moviesList)
             [] currentView = "tvshows" -> Screen("list", "", tvShowsList)
             [] currentView = "seasons" -> Screen("list", "", seasonsList)
             [] currentView = "episodes" -> Screen("list", "", episodesList)
             [] currentView = "search" ->
                  IF Len(searchList) > 0
                    THEN Screen("list", "", searchList)
                    ELSE Screen("prompt", searchInput, <<>>)
             [] currentView = "config" ->
                  Screen("form", "", <<configInputs[1].value,
                                       configInputs[2].value>>)
             [] OTHER -> Screen("text", "Unknown view", <<>>)

-----------------------------------------------------------------------------

Next ==
    \/ KeyEsc
    \/ \E row \in 1..Len(mainItems) : KeyEnterMain(row)
    \/ \E row \in 0..MaxItems : KeyEnterLibrary(row)
    \/ \E row \in 0..MaxItems : KeyEnterSeasons(row)
    \/ \E row \in 0..MaxItems : KeyEnterEpisodes(row)
    \/ \E row \in 0..MaxItems : KeyEnterSearch(row)
    \/ \E ok \in BOOLEAN : KeyEnterConfig(ok)
    \/ \E key \in FocusKeys : KeyFocus(key)
    \/ \E key \in EditKeys : KeyEdit(key)
    \/ RunFetchMovies
    \/ RunFetchTVShows
    \/ RunFetchSeasons
    \/ RunFetchEpisodes
    \/ RunSearchMedia
    \/ RunPlayMedia

Spec == Init /\ [][Next]_vars

\* The same program started on a configuration file that loads, with a
\* server whose answers hold at most MaxFairItems records, for the properties
\* of progress.
FairInit == \E file \in StoredFiles : ~LoadFails(file) /\ StartUp(file, TRUE)

ShortLists ==
    /\ Len(moviesList) <= MaxFairItems
    /\ Len(tvShowsList) <= MaxFairItems
    /\ Len(seasonsList) <= MaxFairItems
    /\ Len(episodesList) <= MaxFairItems
    /\ Len(searchList) <= MaxFairItems

FairRunFetch(kind) == RunFetch(kind) /\ ShortLists'

FairNext ==
    \/ KeyEsc
    \/ \E row \in 1..Len(mainItems) : KeyEnterMain(row)
    \/ \E row \in 0..MaxItems : KeyEnterLibrary(row)
    \/ \E row \in 0..MaxItems : KeyEnterSeasons(row)
    \/ \E row \in 0..MaxItems : KeyEnterEpisodes(row)
    \/ \E row \in 0..MaxItems : KeyEnterSearch(row)
    \/ \E ok \in BOOLEAN : KeyEnterConfig(ok)
    \/ \E key \in FocusKeys : KeyFocus(key)
    \/ \E key \in EditKeys : KeyEdit(key)
    \/ \E kind \in FetchKinds : FairRunFetch(kind)
    \/ RunPlayMedia

\* The runtime runs every command in a goroutine of its own and sends the
\* message it returns to the event loop: a fetch whose request ends is
\* delivered, whatever the user does meanwhile.
FairSpec ==
    /\ FairInit
    /\ [][FairNext]_vars
    /\ \A kind \in FetchKinds : WF_vars(FairRunFetch(kind))

-----------------------------------------------------------------------------
(* Vocabulary of the properties *)

\* the list buffer of each navigable view
listBuffers ==
    [movies |-> moviesList, tvshows |-> tvShowsList, seasons |-> seasonsList,
     episodes |-> episodesList, search |-> searchList]

\* the view a result message is for
TargetView(type) ==
    CASE type = "fetchMoviesMsg" -> "movies"
      [] type = "fetchTVShowsMsg" -> "tvshows"
      [] type = "fetchSeasonsMsg" -> "seasons"
      [] type = "fetchEpisodesMsg" -> "episodes"
      [] type = "searchResultsMsg" -> "search"

FetchesIn(bag) == {c \in BagToSet(bag) : c.kind \in FetchKinds}
PlaysIn(bag) == {c \in BagToSet(bag) : c.kind = "playMedia"}

\* the step hands exactly the command c to the runtime
IssuesOnly(c) == inflight' = inflight (+) SetToBag({c})

\* the step hands no command to the runtime
IssuesNothing == inflight' = inflight

\* the step hands no command of the given kinds to the runtime
IssuesNoneOf(kinds) ==
    \A c \in BagToSet(inflight') :
        c.kind \in kinds => CopiesIn(c, inflight') <= CopiesIn(c, inflight)

-----------------------------------------------------------------------------
\* C1: handling a successful fetch result for view V makes V's buffer the
\* sequence the message carries, in its order, whatever view is active, and
\* leaves activeView, selectionContext and the other buffers alone; selecting
\* "Movies" in the main menu enters Movies and issues one list-movies fetch.
C1_SuccessResultStored ==
    [][ /\ \A c \in FetchesIn(inflight) : \A msg \in FetchResults(c) :
              (msg.type # "errorMsg" /\ Deliver(c, msg)) =>
                  /\ listBuffers' =
                       [listBuffers EXCEPT ![TargetView(msg.type)] = msg.items]
                  /\ UNCHANGED <<currentView, currentItem>>
        /\ \A row \in 1..Len(mainItems) :
              (mainItems[row].ItemTitle = "Movies" /\ KeyEnterMain(row)) =>
                  /\ currentView' = "movies"
                  /\ IssuesOnly(fetchMovies(config))
      ]_vars

\* a two-row movies answer is in the buffer, in the order it was sent, while
\* another view is active
C1_Witness ==
    /\ currentView = "tvshows"
    /\ moviesList = ConvertMovies(config, << JsonItem("m1", "n", "Video", Absent),
                                             JsonItem("", "n", "Video", Absent) >>)

\* C2: handling a failed fetch result sets lastError and nothing else: every
\* buffer, activeView, selectionContext and the session profile keep their
\* values.
C2_FailureOnlySetsError ==
    [][ \A c \in FetchesIn(inflight) : \A msg \in FetchFailure :
            Deliver(c, msg) =>
                /\ err' = msg.err
                /\ UNCHANGED <<listBuffers, currentView, currentItem, config>>
      ]_vars

\* a fetch failed and the movies buffer still holds what an earlier fetch
\* put there
C2_Witness ==
    /\ err \in FetchErrors
    /\ moviesList # <<>>
    /\ currentView = "movies"
    /\ inflight = EmptyBag

EnterOnRow(view, row) ==
    CASE view \in {"movies", "tvshows"} ->
           currentView = view /\ KeyEnterLibrary(row)
      [] view = "seasons" -> KeyEnterSeasons(row)
      [] view = "episodes" -> KeyEnterEpisodes(row)
      [] view = "search" -> KeyEnterSearch(row)

ListViews == {"movies", "tvshows", "seasons", "episodes", "search"}

\* row is a row of view's list and the record there has an empty id
EmptyIdRow(view, row) ==
    /\ row \in 1..Len(listBuffers[view])
    /\ listBuffers[view][row].ID = ""

\* C4, as stated: selecting a record whose id is empty, in any list a view
\* presents, the main menu's rows included, changes neither activeView nor
\* selectionContext and issues no fetch and no play command.
C4_AsStated ==
    [][ /\ \A row \in 1..Len(mainItems) :
              (mainItems[row].ID = "" /\ KeyEnterMain(row)) =>
                  UNCHANGED <<currentView, currentItem>> /\ IssuesNothing
        /\ \A view \in ListViews : \A row \in 1..MaxItems :
              (EmptyIdRow(view, row) /\ EnterOnRow(view, row)) =>
                  UNCHANGED <<currentView, currentItem>> /\ IssuesNothing
      ]_vars

\* C4, amended: selecting a record whose id is empty in the Movies, TVShows,
\* Seasons or Episodes list changes neither activeView nor selectionContext
\* and issues no command; in the Search list it changes neither and issues
\* no play command, and no fetch either unless the query is non-empty.
C4_EmptyIdIsNoOp ==
    [][ \A view \in ListViews : \A row \in 1..MaxItems :
            (EmptyIdRow(view, row) /\ EnterOnRow(view, row)) =>
                /\ UNCHANGED <<currentView, currentItem>>
                /\ IssuesNoneOf({"playMedia"})
                /\ (view # "search" \/ searchInput = "") => IssuesNothing
      ]_vars

\* a row with an empty id is on show in Seasons, with room for a command
C4_Witness ==
    /\ currentView = "seasons"
    /\ \E row \in 1..MaxItems : EmptyIdRow("seasons", row)
    /\ inputs < MaxInputs
    /\ inflight = EmptyBag

C6_AsStated ==
    [][ \A row \in 1..MaxItems :
            (/\ row \in 1..Len(seasonsList)
             /\ seasonsList[row].ID # ""
             /\ KeyEnterSeasons(row)) =>
                /\ currentView' = "episodes"
                /\ currentItem' = seasonsList[row]
                /\ IssuesOnly(fetchEpisodes(config, currentItem.ID))
      ]_vars

\* C6, amended: from Seasons, selecting a record with a non-empty id enters
\* Episodes, makes the record the selectionContext and issues exactly one
\* fetch, the episodes whose parent is the selected record, sorted by name.
C6_SeasonSelectFetchesItsEpisodes ==
    [][ \A row \in 1..MaxItems :
            (/\ row \in 1..Len(seasonsList)
             /\ seasonsList[row].ID # ""
             /\ KeyEnterSeasons(row)) =>
                /\ currentView' = "episodes"
                /\ currentItem' = seasonsList[row]
                /\ IssuesOnly(fetchEpisodes(config, seasonsList[row].ID))
                /\ Endpoint(fetchEpisodes(config, seasonsList[row].ID)) =
                     config.ServerURL \o "/Items?ParentId=" \o seasonsList[row].ID
                         \o "&api_key=" \o config.APIKey \o "&SortBy=SortName"
      ]_vars

\* a season of the show s1 was selected: Episodes is active, the season is the
\* context and the fetch of its episodes is running
C6_Witness ==
    /\ currentView = "episodes"
    /\ currentItem.Type = "season"
    /\ currentItem.ParentID = "s1"
    /\ inflight = SetToBag({fetchEpisodes(config, currentItem.ID)})

\* the sort key of a server record: its sequence number, a missing one
\* counting as the lowest
SequenceKey(item) == IF item.IndexNumber = Absent THEN 0 ELSE item.IndexNumber[1]

\* stored holds the records of resp, each once, in an order in which the
\* sequence numbers never decrease
SortedPermutationOf(stored, resp) ==
    /\ Len(stored) = Len(resp)
    /\ \E p \in Permutations(1..Len(resp)) :
          /\ \A i \in 1..Len(resp) :
                /\ stored[i].ID = resp[p[i]].Id
                /\ stored[i].ItemTitle = resp[p[i]].Name
                /\ stored[i].IndexNumber = SequenceKey(resp[p[i]])
          /\ \A i, j \in 1..Len(resp) :
                i < j => SequenceKey(resp[p[i]]) <= SequenceKey(resp[p[j]])

\* C7: whatever sequence the server returns for an episodes fetch, the
\* Episodes buffer then holds a permutation of it sorted non-decreasing by
\* sequenceNumber, records without one first.
C7_EpisodesStoredSorted ==
    [][ \A c \in FetchesIn(inflight) :
            c.kind = "fetchEpisodes" =>
                \A resp \in Responses(c.kind) : \A msg \in FetchSuccess(c, resp) :
                    Deliver(c, msg) => SortedPermutationOf(episodesList', resp)
      ]_vars

\* the buffer holds a record without sequence number before episode 1
C7_Witness ==
    /\ Len(episodesList) = 2
    /\ episodesList[1].IndexNumber = 0
    /\ episodesList[1].DisplayTitle = "n"
    /\ episodesList[2].IndexNumber = 1
    /\ episodesList[2].DisplayTitle = "E01: n"

\* C8: in Episodes, selecting a record with a non-empty id issues exactly one
\* player spawn, whose sole argument is the record's streamLocator, and stays
\* in Episodes; a spawn that succeeds changes no buffer, selectionContext or
\* lastError.
C8_EpisodeSelectPlays ==
    [][ /\ \A row \in 1..MaxItems :
              (/\ row \in 1..Len(episodesList)
               /\ episodesList[row].ID # ""
               /\ KeyEnterEpisodes(row)) =>
                  /\ IssuesOnly(playMedia(episodesList[row]))
                  /\ PlayerArgs(playMedia(episodesList[row])) =
                       <<GetStreamURL(config, episodesList[row].ID)>>
                  /\ currentView' = "episodes"
                  /\ UNCHANGED <<listBuffers, currentItem, err>>
        /\ \A c \in PlaysIn(inflight) :
              Deliver(c, NilMsg) =>
                  UNCHANGED <<listBuffers, currentView, currentItem, err, config>>
      ]_vars

\* an episode of the list on show is being played
C8_Witness ==
    /\ currentView = "episodes"
    /\ \E row \in 1..Len(episodesList) :
          /\ episodesList[row].ID = "e1"
          /\ inflight = SetToBag({playMedia(episodesList[row])})

\* C9: in Search, enter on a search result with a non-empty id issues the
\* play of that record and stays in Search, whatever the query holds.
C9_SearchSelectPlays ==
    [][ \A row \in 1..MaxItems :
            (/\ row \in 1..Len(searchList)
             /\ searchList[row].ID # ""
             /\ KeyEnterSearch(row)) =>
                /\ IssuesOnly(playMedia(searchList[row]))
                /\ currentView' = "search"
      ]_vars

\* C10: in Search, a submit with a non-empty query q issues exactly one
\* fetch, search(q), and stays in Search; a submit with an empty query
\* issues no fetch; a search that succeeds replaces the Search buffer by its
\* results.
C10_SubmitSearches ==
    [][ /\ \A row \in 0..MaxItems :
              KeyEnterSearch(row) =>
                  /\ currentView' = "search"
                  /\ searchInput # "" =>
                        /\ IssuesOnly(searchMedia(config, searchInput))
                        /\ Endpoint(searchMedia(config, searchInput)) =
                             config.ServerURL \o "/Items?SearchTerm="
                                 \o QueryEscape(searchInput)
                                 \o "&Recursive=true&api_key=" \o config.APIKey
                  /\ searchInput = "" => IssuesNoneOf(FetchKinds)
        /\ \A c \in FetchesIn(inflight) :
              c.kind = "searchMedia" =>
                  \A resp \in Responses(c.kind) : \A msg \in FetchSuccess(c, resp) :
                      Deliver(c, msg) =>
                          /\ Len(searchList') = Len(resp)
                          /\ \A i \in 1..Len(resp) : searchList'[i].ID = resp[i].Id
      ]_vars

\* the query x was submitted and its results are on show
C10_Witness ==
    /\ currentView = "search"
    /\ searchInput = "x"
    /\ Len(searchList) = MaxItems
    /\ inflight = EmptyBag

-----------------------------------------------------------------------------
\* the fetch commands the step hands to the runtime
IssuedFetches ==
    {c \in FetchesIn(inflight') : CopiesIn(c, inflight') > CopiesIn(c, inflight)}

\* the profile the two fields of the Configure view hold
FieldsProfile == Config(configInputs[1].value, configInputs[2].value)

\* C11: a commit in Configure whose save succeeds makes the profile read back
\* from the file and the live profile equal to {field 1, field 2}, whatever
\* the fields hold, and enters Main; no other step changes the live profile,
\* and every fetch is issued with the profile that is live when it is issued.
C11_CommitReplacesProfile ==
    [][ /\ KeyEnterConfig(TRUE) =>
              /\ ~LoadFails(configFile')
              /\ UnmarshalConfig(configFile') = FieldsProfile
              /\ config' = FieldsProfile
              /\ currentView' = "main"
        /\ ~KeyEnterConfig(TRUE) => config' = config
        /\ \A c \in IssuedFetches : c.config = config
      ]_vars

\* a profile with an empty server URL was committed and saved, and the
\* movies fetch issued after it carries it
C11_Witness ==
    /\ config = Config("", "k")
    /\ configFile = JsonFile("", "k")
    /\ currentView = "movies"
    /\ inflight = SetToBag({fetchMovies(Config("", "k"))})

\* the step is a selection that enters a view: a menu row, a record of
\* Movies or TVShows (into Seasons), a record of Seasons (into Episodes)
EntersView ==
    \/ \E row \in 1..Len(mainItems) : KeyEnterMain(row)
    \/ \E row \in 1..MaxItems : KeyEnterLibrary(row) /\ currentView' = "seasons"
    \/ \E row \in 1..MaxItems : KeyEnterSeasons(row) /\ currentView' = "episodes"

SuccessDelivered ==
    \E c \in FetchesIn(inflight) :
        /\ inflight' = inflight (-) SetToBag({c})
        /\ \E msg \in FetchResults(c) : msg.type # "errorMsg" /\ Deliver(c, msg)

ChildrenOf(list, parent) ==
    \A i \in 1..Len(list) : list[i].ParentID = parent.ID

\* C14: in a run without errors, whenever no fetch is in flight, the Seasons
\* buffer shown in Seasons holds the children of the show or movie last
\* drilled into, and the Episodes buffer shown in Episodes the children of
\* the season last drilled into, in whatever order racing results arrived.
\* (In Seasons the context is the record last drilled into unless the view
\* was reached by back from Episodes, when it is a season.)
C14_BufferIsLatestFetch ==
    (err = None /\ FetchesIn(inflight) = {}) =>
        /\ (currentView = "seasons" /\ currentItem.Type # "season") =>
              ChildrenOf(seasonsList, currentItem)
        /\ currentView = "episodes" => ChildrenOf(episodesList, currentItem)

SelectedFrom ==
    CASE currentView \in {"movies", "tvshows", "search", "config"} -> "main"
      [] currentView = "episodes" -> "seasons"
      [] currentView = "seasons" ->
           IF currentItem.Type = "tvshow" THEN "tvshows" ELSE "movies"
      [] OTHER -> currentView

\* the active view was reached by a selection: every view but the menu, and
\* Seasons unless it was reached by back from Episodes (the context is then
\* a season)
ReachedBySelection ==
    /\ currentView # "main"
    /\ currentView = "seasons" => currentItem.Type # "season"

\* C16: Escape goes back to the previous screen: in every view reached by a
\* selection it makes the view in which that selection was made the active
\* one.
C16_BackToPreviousScreen ==
    [][ (KeyEsc /\ ReachedBySelection) => currentView' = SelectedFrom ]_vars

\* C17: selecting a movie (a record with a non-empty id in Movies) or an
\* episode (a record with a non-empty id in Episodes) issues the play of
\* that record with mpv.
C17_SelectPlays ==
    [][ \A row \in 1..MaxItems :
          /\ (/\ currentView = "movies"
              /\ row \in 1..Len(moviesList)
              /\ moviesList[row].ID # ""
              /\ KeyEnterLibrary(row)) =>
                 IssuesOnly(playMedia(moviesList[row]))
          /\ (/\ row \in 1..Len(episodesList)
              /\ episodesList[row].ID # ""
              /\ KeyEnterEpisodes(row)) =>
                 IssuesOnly(playMedia(episodesList[row]))
      ]_vars

\* the streamLocator a record of the fetch c has: built from the profile c
\* was issued with (seasons have none)
LocatorOf(c, item) ==
    IF c.kind = "fetchSeasons" THEN "" ELSE GetStreamURL(c.config, item.ID)

\* C18: a fetch is issued with the profile that is live at that moment and
\* keeps it: a Configure commit, saved or not, leaves the fetches in flight
\* as they are (none altered, cancelled or issued), and the records a fetch
\* delivers have streamLocators built from the profile it was issued with,
\* whatever the live profile is by then.
C18_FetchKeepsDispatchProfile ==
    [][ /\ \A c \in IssuedFetches : c.config = config
        /\ \A ok \in BOOLEAN : KeyEnterConfig(ok) => inflight' = inflight
        /\ \A c \in FetchesIn(inflight) :
              inflight' = inflight (-) SetToBag({c}) =>
                  \A msg \in FetchResults(c) :
                      (msg.type # "errorMsg" /\ Deliver(c, msg)) =>
                          LET stored == listBuffers'[TargetView(msg.type)] IN
                            \A i \in 1..Len(stored) :
                                stored[i].StreamURL = LocatorOf(c, stored[i])
      ]_vars

\* the profile was replaced by a commit while a movies fetch issued with the
\* stored profile is still in flight
C18_Witness ==
    /\ config = Config("", "k")
    /\ currentView = "main"
    /\ inflight = SetToBag({fetchMovies(Config("u", "k"))})

\* a fetch of the given kind is with the runtime
InFlight(kind) == \E c \in FetchesIn(inflight) : c.kind = kind

\* the step is Update handling the one message the fetch c ends with: a
\* result, which goes to a buffer, or an error, which goes to lastError
ResultProcessed(c) ==
    /\ inflight' = inflight (-) SetToBag({c})
    /\ \E msg \in FetchResults(c) : UpdateMsg(msg)
    /\ buffers' = buffers \/ err' = err

\* C19: a fetch leaves the runtime only in a step that processes its one
\* result, a success or a failure and not both, and no result is processed
\* without a fetch leaving; no key (navigation included) removes a fetch;
\* and with fair completion every fetch in flight is eventually processed.
C19_OneResultEventuallyProcessed ==
    /\ [][ /\ \A c \in FetchesIn(inflight) :
                 CopiesIn(c, inflight') < CopiesIn(c, inflight) => ResultProcessed(c)
           /\ buffers' # buffers =>
                 \E c \in FetchesIn(inflight) : ResultProcessed(c)
           /\ (currentView' # currentView \/ fields' # fields) =>
                 \A c \in FetchesIn(inflight) :
                     CopiesIn(c, inflight') >= CopiesIn(c, inflight)
         ]_vars
    /\ \A kind \in FetchKinds : InFlight(kind) ~> ~InFlight(kind)

\* the user went back to the menu while the seasons fetch was in flight, and
\* its result has been stored all the same
C19_Witness ==
    /\ currentView = "main"
    /\ Len(seasonsList) = MaxFairItems
    /\ seasonsList[1].ParentID = "s2"
    /\ inflight = EmptyBag

\* the step moves the active view along one of the back transitions, which
\* no selection and no commit does
BackStep ==
    /\ currentView' # currentView
    /\ currentView' = BackTarget(currentView)

\* C20: a back event issues no command and changes at most activeView: the
\* buffers, selectionContext, the session profile and lastError stay as they
\* are (back into Seasons or TVShows shows the buffer as it was and the
\* context stays the record last drilled into).
C20_BackChangesOnlyView ==
    [][ (KeyEsc \/ BackStep) =>
          /\ IssuesNothing
          /\ UNCHANGED <<listBuffers, currentItem, config, err>>
      ]_vars

\* back from Episodes has led to Seasons: the context is still the season
\* drilled into and the fetch of its episodes is still in flight
C20_Witness ==
    /\ currentView = "seasons"
    /\ currentItem.Type = "season"
    /\ currentItem.ID # ""
    /\ inflight = SetToBag({fetchEpisodes(config, currentItem.ID)})

\* C21: a commit in Configure whose save fails sets lastError to the error of
\* the save, keeps the live profile, stays in Configure and issues no
\* command.
C21_FailedSaveKeepsProfile ==
    [][ KeyEnterConfig(FALSE) =>
          /\ err' = SaveError
          /\ config' = config
          /\ currentView' = "config"
          /\ IssuesNothing
          /\ View'.screen = "error"
      ]_vars

\* the URL field was emptied and the commit failed: the error is set, the
\* live profile and the file are the stored ones and Configure is active
C21_Witness ==
    /\ currentView = "config"
    /\ err = SaveError
    /\ FieldsProfile = Config("", "k")
    /\ config = Config("u", "k")
    /\ configFile = JsonFile("u", "k")

\* the number of fields of the Configure view that have the focus
FocusedFields == Cardinality({i \in 1..2 : configInputs[i].focused})

\* C22: whenever Configure is active exactly one of its two fields has the
\* focus, whatever entries, focus toggles, commits and re-entries came
\* before; a focus toggle moves the focus to the other field; typed text
\* changes the focused field and only that one.
C22_ExactlyOneFocus ==
    [][ /\ currentView' = "config" => FocusedFields' = 1
        /\ \A key \in FocusKeys :
              (currentView = "config" /\ KeyFocus(key)) =>
                  \A i \in 1..2 :
                      configInputs'[i].focused = ~configInputs[i].focused
        /\ \A key \in EditKeys :
              (currentView = "config" /\ KeyEdit(key)) =>
                  \A i \in 1..2 :
                      configInputs'[i].value =
                          IF configInputs[i].focused
                            THEN Edit(configInputs[i].value, key)
                            ELSE configInputs[i].value
      ]_vars

====
